---- MODULE Spec2Model ----
(***************************************************************************)
(* Isolation-forest engine of the host-based intrusion detection system:   *)
(* train_isolation_forest / build_isolation_tree / path_length /           *)
(* anomaly_score of the full implementation, and build_tree / get_path /   *)
(* c_factor of the compact variant (new.c).                                *)
(*                                                                         *)
(* Real numbers are fixed-point integers in units of 1/Scale.  A score     *)
(* pow(2.0, -avg_path_length / c) is kept as its exponent: the record      *)
(* [fallback |-> FALSE, num |-> s, den |-> d] stands for 2^(-s/d), where   *)
(* s is the sum of the path lengths and d = num_trees * c.                 *)
(*                                                                         *)
(* The #define constants keep their names; their values are scaled down    *)
(* (the source has MAX_SYSCALLS 20, NUM_TREES 10, SUBSAMPLE_SIZE 8,        *)
(* MAX_TREE_DEPTH 10) so that every forest the random choices can produce  *)
(* is enumerated.                                                          *)
(***************************************************************************)
EXTENDS Integers, Sequences, FiniteSets, TLC

\* ---------------------------------------------------------------- constants
MAX_SYSCALLS == 2
NUM_TREES == 2
SUBSAMPLE_SIZE == 2
MAX_TREE_DEPTH == 2

\* bounds of the inputs: size of the training set, largest syscall frequency
MaxN == 2
MaxFreq == 2
\* bound of the number of anomaly_score calls
MaxScores == 2

\* fixed-point unit
Scale == 1000000
\* 0.5772156649
EulerGamma == 577216
\* log(k) for k = 1..8, in units of 1/Scale
LogTable == <<0, 693147, 1098612, 1386294, 1609438, 1791759, 1945910, 2079442>>

NULL == 0

Attrs == 0 .. (MAX_SYSCALLS - 1)
Vectors == [Attrs -> 0 .. MaxFreq]

VARIABLES
    n,               \* train_isolation_forest: argument n
    training_data,   \* train_isolation_forest: argument training_data[0..n-1]
    pc,              \* position of main: "start", "loop", "trained"
    forest,          \* IsolationForest: num_trees, subsample_size, trees
    t,               \* loop counter of train_isolation_forest
    rand_calls,      \* number of rand() calls made so far
    returned,        \* the forest and rand_calls as train_isolation_forest returned
    calls,           \* number of anomaly_score calls made so far
    sample,          \* argument of the last anomaly_score call
    paths,           \* path_length result per tree of the last call
    score,           \* result of the last anomaly_score call
    \* one call of build_isolation_tree and one of path_length, step by step
    subsample,  \* the subsample the outermost call was given
    nodes,              \* the nodes created so far
    stack,              \* the calls of build_isolation_tree not yet run, next first
    build_calls,        \* number of calls of build_isolation_tree run so far
    walk                \* the running call of path_length

step_vars == <<subsample, nodes, stack, build_calls, walk>>

vars == <<n, training_data, pc, forest, t, rand_calls, returned, calls,
          sample, paths, score, step_vars>>

NoScore == [fallback |-> TRUE, num |-> 0, den |-> 1]
NoVector == [a \in Attrs |-> -1]
NoForest == [num_trees |-> 0, subsample_size |-> 0, trees |-> <<>>]
NoWalk == [node |-> NULL, current_depth |-> 0, visited |-> 0, value |-> 0,
           smp |-> NoVector]

\* ------------------------------------------------------------ utility code

log(k) == LogTable[k]

harmonic_number(k) == IF k <= 1 THEN 0 ELSE log(k) + EulerGamma

c_factor(k) ==
    IF k <= 1 THEN 0
    ELSE 2 * harmonic_number(k - 1) - ((2 * (k - 1) * Scale) \div k)

\* the compact variant computes log(n - 1) + 0.5772156649 inline
c_factor_compact(k) ==
    IF k <= 1 THEN 0
    ELSE 2 * (log(k - 1) + EulerGamma) - ((2 * (k - 1) * Scale) \div k)

\* min + rand() % (max - min + 1): the set of values one call can return
random_int(min, max) == min .. max

\* ------------------------------------------------------- tree construction

Freq(i, a) == training_data[i][a]

RECURSIVE SeqMin(_, _)
SeqMin(indices, a) ==
    IF Len(indices) = 1 THEN Freq(indices[1], a)
    ELSE LET m == SeqMin(Tail(indices), a)
             v == Freq(indices[1], a)
         IN IF v < m THEN v ELSE m

RECURSIVE SeqMax(_, _)
SeqMax(indices, a) ==
    IF Len(indices) = 1 THEN Freq(indices[1], a)
    ELSE LET m == SeqMax(Tail(indices), a)
             v == Freq(indices[1], a)
         IN IF v > m THEN v ELSE m

create_node ==
    [is_leaf |-> 0, split_attribute |-> -1, split_value |-> 0,
     left |-> NULL, right |-> NULL, size |-> 0,
     \* not fields of IsolationNode: the arguments of the call that built it
     indices |-> <<>>, current_depth |-> 0]

\* mutant: the depth test is off by one
Terminates_late(count, current_depth, max_depth) ==
    current_depth > max_depth \/ count <= 1

\* mutant: the depth test is missing
Terminates_nodepth(count, current_depth, max_depth) == count <= 1

\* termination conditions: max depth or single/no samples
Terminates(count, current_depth, max_depth) ==
    current_depth >= max_depth \/ count <= 1

\* mutant: a sample equal to the split value goes left as well
left_indices_le(indices, a, split_value) ==
    SelectSeq(indices, LAMBDA i : Freq(i, a) <= split_value)

\* if (val < node->split_value) left_indices[left_count++] = indices[i];
left_indices(indices, a, split_value) ==
    SelectSeq(indices, LAMBDA i : Freq(i, a) < split_value)

\* mutant: a sample equal to the split value is dropped
right_indices_strict(indices, a, split_value) ==
    SelectSeq(indices, LAMBDA i : Freq(i, a) > split_value)

\* else right_indices[right_count++] = indices[i];
right_indices(indices, a, split_value) ==
    SelectSeq(indices, LAMBDA i : Freq(i, a) >= split_value)

\* mutant: a partition of one sample gets no child
HasChild_gt1(count) == count > 1

\* if (left_count > 0) / if (right_count > 0)
HasChild(count) == count > 0

\* mutant: the equal-values test is missing
AllSame_never(min_val, max_val) == FALSE

\* if (min_val == max_val)
AllSame(min_val, max_val) == min_val = max_val

\* node ids: the root is 1, the children of id are 2*id and 2*id+1
LeftId(id) == 2 * id
RightId(id) == 2 * id + 1

\* The set of trees one call build_isolation_tree(data, indices, n,
\* current_depth, max_depth) can return, one per outcome of its rand() calls;
\* a tree is the function from the ids of its nodes to the nodes.
RECURSIVE build_isolation_tree(_, _, _, _)
build_isolation_tree(id, indices, current_depth, max_depth) ==
    LET node == [create_node EXCEPT !.size = Len(indices), !.indices = indices,
                                    !.current_depth = current_depth]
    IN IF Terminates(Len(indices), current_depth, max_depth)
       THEN {id :> [node EXCEPT !.is_leaf = 1]}
       ELSE UNION {
              LET min_val == SeqMin(indices, a)
                  max_val == SeqMax(indices, a)
                  chosen == [node EXCEPT !.split_attribute = a]
              IN IF AllSame(min_val, max_val)
                 THEN {id :> [chosen EXCEPT !.is_leaf = 1]}
                 ELSE UNION {
                        LET li == left_indices(indices, a, v)
                            ri == right_indices(indices, a, v)
                            ls == IF HasChild(Len(li))
                                  THEN build_isolation_tree(LeftId(id), li,
                                           current_depth + 1, max_depth)
                                  ELSE {<<>>}
                            rs == IF HasChild(Len(ri))
                                  THEN build_isolation_tree(RightId(id), ri,
                                           current_depth + 1, max_depth)
                                  ELSE {<<>>}
                            split == [chosen EXCEPT
                                        !.split_value = v,
                                        !.left = IF HasChild(Len(li)) THEN LeftId(id) ELSE NULL,
                                        !.right = IF HasChild(Len(ri)) THEN RightId(id) ELSE NULL]
                        IN {(id :> split) @@ l @@ r : l \in ls, r \in rs}
                        : v \in random_int(min_val, max_val)}
              : a \in random_int(0, MAX_SYSCALLS - 1)}

\* rand() calls of the build: one per chosen attribute, one per split value
RandCallsOf(tree_nodes) ==
    Cardinality({id \in DOMAIN tree_nodes : tree_nodes[id].split_attribute # -1})
    + Cardinality({id \in DOMAIN tree_nodes : tree_nodes[id].is_leaf = 0})

\* ------------------------------------------------------------- evaluation

\* mutant: an absent required child ends the walk at the current depth
RECURSIVE path_length_stop(_, _, _, _)
path_length_stop(tree, id, smp, current_depth) ==
    IF id = NULL
    THEN [value |-> current_depth * Scale, exit |-> "null", visited |-> <<>>]
    ELSE LET node == tree.nodes[id] IN
         IF node.is_leaf = 1
         THEN [value |-> current_depth * Scale + c_factor(node.size),
               exit |-> "leaf", visited |-> <<id>>]
         ELSE LET val == smp[node.split_attribute]
                  child == IF val < node.split_value THEN node.left ELSE node.right
              IN IF child # NULL
                 THEN LET r == path_length_stop(tree, child, smp, current_depth + 1)
                      IN [r EXCEPT !.visited = <<id>> \o @]
                 ELSE [value |-> current_depth * Scale, exit |-> "fallback",
                       visited |-> <<id>>]

RECURSIVE path_length(_, _, _, _)
path_length(tree, id, smp, current_depth) ==
    IF id = NULL
    THEN [value |-> current_depth * Scale, exit |-> "null", visited |-> <<>>]
    ELSE LET node == tree.nodes[id] IN
         IF node.is_leaf = 1
         THEN [value |-> current_depth * Scale + c_factor(node.size),
               exit |-> "leaf", visited |-> <<id>>]
         ELSE LET val == smp[node.split_attribute] IN
              IF val < node.split_value /\ node.left # NULL
              THEN LET r == path_length(tree, node.left, smp, current_depth + 1)
                   IN [r EXCEPT !.visited = <<id>> \o @]
              ELSE IF node.right # NULL
              THEN LET r == path_length(tree, node.right, smp, current_depth + 1)
                   IN [r EXCEPT !.visited = <<id>> \o @]
              ELSE [value |-> current_depth * Scale, exit |-> "fallback",
                    visited |-> <<id>>]

\* get_path of the compact variant: an absent node counts as a leaf of size 0
RECURSIVE get_path(_, _, _, _)
get_path(tree, id, smp, depth) ==
    IF id = NULL THEN depth * Scale + c_factor_compact(0)
    ELSE LET node == tree.nodes[id] IN
         IF node.is_leaf = 1 THEN depth * Scale + c_factor_compact(node.size)
         ELSE IF smp[node.split_attribute] < node.split_value
              THEN get_path(tree, node.left, smp, depth + 1)
              ELSE get_path(tree, node.right, smp, depth + 1)

RECURSIVE SumSeq(_)
SumSeq(s) == IF s = <<>> THEN 0 ELSE Head(s) + SumSeq(Tail(s))

PathsOf(f, smp) ==
    [k \in 1 .. Len(f.trees) |-> path_length(f.trees[k], f.trees[k].root, smp, 0)]

anomaly_score(f, smp) ==
    LET total == SumSeq([k \in 1 .. Len(f.trees) |-> PathsOf(f, smp)[k].value])
        c == c_factor(f.subsample_size)
    IN IF c = 0 THEN [fallback |-> TRUE, num |-> 0, den |-> 1]
       ELSE [fallback |-> FALSE, num |-> total, den |-> f.num_trees * c]

\* mutant: scoring consumes the size recorded at each root
ForestAfterScore_touch(f, smp) ==
    [f EXCEPT !.trees = [k \in 1 .. Len(f.trees) |->
                            [f.trees[k] EXCEPT !.nodes[1].size = 0]]]

\* what anomaly_score and path_length leave behind in the forest: nothing
ForestAfterScore(f, smp) == f

\* ---------------------------------------------------------------- actions

\* training sets are enumerated up to the order of their rows and of their
\* columns: rows in non-decreasing order, column totals in non-decreasing order
RECURSIVE VecKey(_, _)
VecKey(v, a) == IF a < 0 THEN 0 ELSE VecKey(v, a - 1) * (MaxFreq + 1) + v[a]

RECURSIVE ColSum(_, _, _)
ColSum(d, count, a) ==
    IF count = 0 THEN 0 ELSE d[count - 1][a] + ColSum(d, count - 1, a)

Ordered(d, count) ==
    /\ \A i \in 0 .. (count - 2) :
          VecKey(d[i], MAX_SYSCALLS - 1) <= VecKey(d[i + 1], MAX_SYSCALLS - 1)
    /\ \A a \in 0 .. (MAX_SYSCALLS - 2) :
          ColSum(d, count, a) <= ColSum(d, count, a + 1)

Init ==
    /\ n \in 0 .. MaxN
    /\ training_data \in {d \in [0 .. (n - 1) -> Vectors] : Ordered(d, n)}
    /\ pc = "start"
    /\ forest = NoForest
    /\ t = 0
    /\ rand_calls = 0
    /\ returned = [forest |-> NoForest, rand_calls |-> 0]
    /\ calls = 0
    /\ sample = NoVector
    /\ paths = <<>>
    /\ score = NoScore
    /\ subsample = <<>>
    /\ nodes = <<>>
    /\ stack = <<>>
    /\ build_calls = 0
    /\ walk = NoWalk

\* mutant: the subsample size is not clamped to the size of the training set
SubsampleSize_unclamped(count) == SUBSAMPLE_SIZE

\* forest->subsample_size = SUBSAMPLE_SIZE < n ? SUBSAMPLE_SIZE : n
SubsampleSize(count) == IF SUBSAMPLE_SIZE < count THEN SUBSAMPLE_SIZE ELSE count

\* for (int t = 0; t < NUM_TREES; t++)
LoopContinues(k) == k < NUM_TREES

\* train_isolation_forest, up to its loop
TrainBegin ==
    /\ pc = "start"
    /\ forest' = [num_trees |-> NUM_TREES, subsample_size |-> SubsampleSize(n),
                  trees |-> <<>>]
    /\ t' = 0
    /\ pc' = "loop"
    /\ UNCHANGED <<n, training_data, rand_calls, returned, calls, sample, paths, score,
                   step_vars>>

\* one iteration of the loop: subsample_size calls of random_int(0, n - 1),
\* then build_isolation_tree(training_data, subsample_indices, subsample_size,
\* 0, MAX_TREE_DEPTH), and the tree joins the forest
BuildTree ==
    /\ pc = "loop"
    /\ LoopContinues(t)
    /\ \E subsample_indices \in [1 .. forest.subsample_size -> random_int(0, n - 1)] :
          \E built \in build_isolation_tree(1, subsample_indices, 0, MAX_TREE_DEPTH) :
             /\ forest' = [forest EXCEPT !.trees =
                              Append(@, [root |-> 1, max_depth |-> MAX_TREE_DEPTH,
                                         nodes |-> built,
                                         \* not a field of IsolationTree
                                         subsample |-> subsample_indices])]
             /\ rand_calls' = rand_calls + forest.subsample_size + RandCallsOf(built)
    /\ t' = t + 1
    /\ UNCHANGED <<n, training_data, pc, returned, calls, sample, paths, score,
                   step_vars>>

\* the loop is over: train_isolation_forest returns the forest
TrainReturn ==
    /\ pc = "loop"
    /\ ~LoopContinues(t)
    /\ pc' = "trained"
    /\ returned' = [forest |-> forest, rand_calls |-> rand_calls]
    /\ UNCHANGED <<n, training_data, forest, t, rand_calls, calls, sample, paths, score,
                   step_vars>>

\* one call anomaly_score(forest, smp)
Score ==
    /\ pc = "trained"
    /\ calls < MaxScores
    /\ \E smp \in Vectors :
          /\ sample' = smp
          /\ paths' = PathsOf(forest, smp)
          /\ score' = anomaly_score(forest, smp)
          /\ forest' = ForestAfterScore(forest, smp)
    /\ calls' = calls + 1
    /\ UNCHANGED <<n, training_data, pc, t, rand_calls, returned,
                   step_vars>>

NextTrain ==
    \/ TrainBegin
    \/ BuildTree
    \/ TrainReturn

Next ==
    \/ TrainBegin
    \/ BuildTree
    \/ TrainReturn
    \/ Score

\* training alone
SpecTrain == Init /\ [][NextTrain]_vars

\* training, then calls of anomaly_score
Spec == Init /\ [][Next]_vars

\* ------------------------------------------- one build and one walk, by steps

\* a call build_isolation_tree(data, indices, n, current_depth, max_depth)
\* whose result becomes node id
Call(id, indices, current_depth) ==
    [node |-> id, indices |-> indices, current_depth |-> current_depth]

\* node->left = build_isolation_tree(...) / node->right = ...: the pointer the
\* caller stores for the node the call returns
Link(ns, id) ==
    IF id = 1 THEN ns
    ELSE IF id % 2 = 0 THEN [ns EXCEPT ![id \div 2].left = id]
                       ELSE [ns EXCEPT ![id \div 2].right = id]

\* the recursive calls of a node that split: left first, then right
ChildCalls(id, li, ri, current_depth) ==
    (IF HasChild(Len(li)) THEN <<Call(LeftId(id), li, current_depth + 1)>> ELSE <<>>)
    \o (IF HasChild(Len(ri)) THEN <<Call(RightId(id), ri, current_depth + 1)>> ELSE <<>>)

\* the loop body of train_isolation_forest calls build_isolation_tree on a
\* fresh subsample, at depth 0
CallBuild ==
    /\ pc = "start"
    /\ \E s \in [1 .. SubsampleSize(n) -> random_int(0, n - 1)] :
          /\ subsample' = s
          /\ stack' = <<Call(1, s, 0)>>
    /\ nodes' = <<>>
    /\ build_calls' = 0
    /\ pc' = "build"
    /\ UNCHANGED <<n, training_data, forest, t, rand_calls, returned, calls,
                   sample, paths, score, walk>>

\* one call of build_isolation_tree, up to its recursive calls
BuildCall ==
    /\ pc = "build"
    /\ stack # <<>>
    /\ LET call == Head(stack)
           id == call.node
           idx == call.indices
           d == call.current_depth
           node == [create_node EXCEPT !.size = Len(idx), !.indices = idx,
                                       !.current_depth = d]
       IN IF Terminates(Len(idx), d, MAX_TREE_DEPTH)
          THEN /\ nodes' = Link(nodes @@ (id :> [node EXCEPT !.is_leaf = 1]), id)
               /\ stack' = Tail(stack)
          ELSE \E a \in random_int(0, MAX_SYSCALLS - 1) :
                 LET min_val == SeqMin(idx, a)
                     max_val == SeqMax(idx, a)
                     chosen == [node EXCEPT !.split_attribute = a]
                 IN IF AllSame(min_val, max_val)
                    THEN /\ nodes' = Link(nodes @@ (id :> [chosen EXCEPT !.is_leaf = 1]), id)
                         /\ stack' = Tail(stack)
                    ELSE \E v \in random_int(min_val, max_val) :
                           /\ nodes' = Link(nodes @@ (id :> [chosen EXCEPT !.split_value = v]), id)
                           /\ stack' = ChildCalls(id, left_indices(idx, a, v),
                                                  right_indices(idx, a, v), d)
                                       \o Tail(stack)
    /\ build_calls' = build_calls + 1
    /\ UNCHANGED <<n, training_data, pc, forest, t, rand_calls, returned, calls,
                   sample, paths, score, subsample, walk>>

\* the outermost call of build_isolation_tree returns
BuildReturn ==
    /\ pc = "build"
    /\ stack = <<>>
    /\ pc' = "built"
    /\ UNCHANGED <<n, training_data, forest, t, rand_calls, returned, calls,
                   sample, paths, score, step_vars>>

\* path_length(root, smp, 0) is called on the tree
CallWalk ==
    /\ pc = "built"
    /\ \E smp \in Vectors :
          walk' = [node |-> 1, current_depth |-> 0, visited |-> 0, value |-> 0,
                   smp |-> smp]
    /\ pc' = "walk"
    /\ UNCHANGED <<n, training_data, forest, t, rand_calls, returned, calls,
                   sample, paths, score, subsample, nodes, stack, build_calls>>

\* one call of path_length: it returns, or calls itself on a child
WalkStep ==
    /\ pc = "walk"
    /\ LET d == walk.current_depth IN
       IF walk.node = NULL
       THEN /\ walk' = [walk EXCEPT !.value = d * Scale]
            /\ pc' = "walked"
       ELSE LET node == nodes[walk.node]
                here == walk.visited + 1
            IN IF node.is_leaf = 1
               THEN /\ walk' = [walk EXCEPT !.value = d * Scale + c_factor(node.size),
                                            !.visited = here]
                    /\ pc' = "walked"
               ELSE IF walk.smp[node.split_attribute] < node.split_value
                       /\ node.left # NULL
               THEN /\ walk' = [walk EXCEPT !.node = node.left,
                                            !.current_depth = d + 1, !.visited = here]
                    /\ pc' = "walk"
               ELSE IF node.right # NULL
               THEN /\ walk' = [walk EXCEPT !.node = node.right,
                                            !.current_depth = d + 1, !.visited = here]
                    /\ pc' = "walk"
               ELSE /\ walk' = [walk EXCEPT !.value = d * Scale, !.visited = here]
                    /\ pc' = "walked"
    /\ UNCHANGED <<n, training_data, forest, t, rand_calls, returned, calls,
                   sample, paths, score, subsample, nodes, stack, build_calls>>

NextSteps ==
    \/ CallBuild
    \/ BuildCall
    \/ BuildReturn
    \/ CallWalk
    \/ WalkStep

\* one call of build_isolation_tree, then one call of path_length, by steps
SpecSteps == Init /\ [][NextSteps]_vars

\* ------------------------------------------------------------- properties

Built == {forest.trees[k] : k \in 1 .. Len(forest.trees)}
InternalIds(tree) == {id \in DOMAIN tree.nodes : tree.nodes[id].is_leaf = 0}
LeafIds(tree) == {id \in DOMAIN tree.nodes : tree.nodes[id].is_leaf = 1}
Count(s, x) == Cardinality({k \in 1 .. Len(s) : s[k] = x})
Range(s) == {s[k] : k \in 1 .. Len(s)}

\* the places <<leaf, k>> of the leaves' index lists
LeafPlaces(tree) ==
    UNION {{<<id, k>> : k \in 1 .. Len(tree.nodes[id].indices)} : id \in LeafIds(tree)}

\* 2^(-num/den) lies in [0, 1] exactly when the exponent -num/den is not positive
InUnit(s) ==
    s.fallback \/ (s.den > 0 /\ s.num >= 0) \/ (s.den < 0 /\ s.num <= 0)

\* C1: for a forest trained with subsample size > 1, the score of every
\* vector lies in [0, 1].
C1_ScoreInUnit ==
    (pc = "trained" /\ calls > 0 /\ forest.subsample_size > 1) => InUnit(score)

\* C2: training on an empty training set is rejected before any tree is built:
\* no tree is ever built and train never returns a forest.
C2_EmptyRejected ==
    (n = 0) => (forest.trees = <<>> /\ pc # "trained")

C4_LeafSizes ==
    \A tree \in Built :
        LET places == LeafPlaces(tree) IN
        /\ \A id \in LeafIds(tree) :
              tree.nodes[id].size = Len(tree.nodes[id].indices)
        /\ Cardinality(places) = tree.nodes[tree.root].size
        /\ Cardinality(places) = Len(tree.subsample)
        /\ \A i \in 0 .. (n - 1) :
              Cardinality({p \in places : tree.nodes[p[1]].indices[p[2]] = i})
                  = Count(tree.subsample, i)

C4_Witness ==
    \E tree \in Built :
        /\ Cardinality(LeafIds(tree)) >= 2
        /\ \E id \in LeafIds(tree) : tree.nodes[id].size = 1
        /\ Len(tree.subsample) = 2

Identical ==
    n >= 1 /\ \A i, j \in 0 .. (n - 1) : training_data[i] = training_data[j]

\* C6: when all training vectors are identical, every tree's root is a leaf
\* of size subsample_size, and every vector receives the same score.
C6_Degenerate ==
    Identical =>
        /\ \A tree \in Built :
              /\ tree.nodes[tree.root].is_leaf = 1
              /\ tree.nodes[tree.root].size = forest.subsample_size
        /\ (calls > 0 => \A v \in Vectors : anomaly_score(forest, v) = score)

C6_Witness ==
    /\ Identical
    /\ n = 2
    /\ pc = "trained"
    /\ calls > 0
    /\ sample # training_data[0]
    /\ Len(forest.trees) = NUM_TREES

\* C7 as stated: every internal node has both children.
C7_BothChildren ==
    \A tree \in Built : \A id \in InternalIds(tree) :
        tree.nodes[id].left # NULL /\ tree.nodes[id].right # NULL

\* C7 as amended: every internal node has its right child; its left child is
\* present exactly when one of its samples lies below the split value.
C7_RightChildPresent ==
    \A tree \in Built : \A id \in InternalIds(tree) :
        LET node == tree.nodes[id] IN
        /\ node.right # NULL
        /\ node.right \in DOMAIN tree.nodes
        /\ node.left # NULL =>
              /\ node.left \in DOMAIN tree.nodes
              /\ \E k \in 1 .. Len(node.indices) :
                    Freq(node.indices[k], node.split_attribute) < node.split_value
        /\ node.left = NULL =>
              \A k \in 1 .. Len(node.indices) :
                  Freq(node.indices[k], node.split_attribute) >= node.split_value

C7_Witness ==
    /\ \E tree \in Built : \E id \in InternalIds(tree) :
          tree.nodes[id].left = NULL /\ tree.nodes[id].right # NULL
    /\ \E tree \in Built : \E id \in InternalIds(tree) :
          tree.nodes[id].left # NULL /\ tree.nodes[id].right # NULL

\* C8: a node is a leaf iff it was built at depth >= max_depth, from at most
\* one sample, or from samples that agree on the attribute chosen at the node;
\* otherwise it is internal, its attribute lies in 0 .. MAX_SYSCALLS-1 and its
\* split value between the minimum and the maximum of that attribute.
C8_LeafIff ==
    \A tree \in Built : \A id \in DOMAIN tree.nodes :
        LET node == tree.nodes[id]
            a == node.split_attribute
            chose == a \in 0 .. (MAX_SYSCALLS - 1)
            lo == IF chose THEN SeqMin(node.indices, a) ELSE 0
            hi == IF chose THEN SeqMax(node.indices, a) ELSE 0
        IN /\ (node.is_leaf = 1) <=>
                  \/ node.current_depth >= tree.max_depth
                  \/ node.size <= 1
                  \/ (chose /\ lo = hi)
           /\ (node.is_leaf = 0) =>
                  (chose /\ lo <= node.split_value /\ node.split_value <= hi)

C8_Witness ==
    /\ \E tree \in Built :
          /\ \E id \in LeafIds(tree) :
                tree.nodes[id].current_depth >= tree.max_depth /\ tree.nodes[id].size > 1
          /\ \E id \in InternalIds(tree) : tree.nodes[id].current_depth = 1
    /\ \E tree \in Built : \E id \in LeafIds(tree) :
          /\ tree.nodes[id].current_depth < tree.max_depth
          /\ tree.nodes[id].size > 1
          /\ \E i, j \in Range(tree.nodes[id].indices) : training_data[i] # training_data[j]

\* the child the comparison asks for is absent
RequiredAbsent(node, smp) ==
    IF smp[node.split_attribute] < node.split_value
    THEN node.left = NULL
    ELSE node.right = NULL

\* C9 as stated: when the walk is at an internal node at depth d whose required
\* child is absent, it ends there and returns exactly d.
C9_ReturnsDepth ==
    (pc = "trained" /\ calls > 0) =>
        \A k \in 1 .. Len(paths) : \A id \in Range(paths[k].visited) :
            LET tree == forest.trees[k]
                node == tree.nodes[id]
            IN (node.is_leaf = 0 /\ RequiredAbsent(node, sample)) =>
                  /\ paths[k].visited[Len(paths[k].visited)] = id
                  /\ paths[k].value = node.current_depth * Scale

\* C9 as amended: when the required left child is absent and the right child is
\* present, path_length descends into the right child and returns the right
\* subtree's result; it returns the current depth only when the right child
\* is absent.  get_path of the compact variant returns d + 1 there.
C9_AbsentLeftDescendsRight ==
    (pc = "trained" /\ calls > 0) =>
        \A k \in 1 .. Len(paths) : \A id \in Range(paths[k].visited) :
            LET tree == forest.trees[k]
                node == tree.nodes[id]
                d == node.current_depth
            IN (node.is_leaf = 0 /\ RequiredAbsent(node, sample)) =>
                  /\ node.right # NULL =>
                        /\ node.right \in Range(paths[k].visited)
                        /\ paths[k].exit = "leaf"
                        /\ paths[k].value =
                               path_length(tree, node.right, sample, d + 1).value
                  /\ node.right = NULL =>
                        paths[k].exit = "fallback" /\ paths[k].value = d * Scale
                  /\ get_path(tree, id, sample, d) = (d + 1) * Scale

C9_Witness ==
    /\ pc = "trained"
    /\ calls > 0
    /\ \E k \in 1 .. Len(paths) : \E id \in Range(paths[k].visited) :
          LET node == forest.trees[k].nodes[id]
          IN /\ node.is_leaf = 0
             /\ RequiredAbsent(node, sample)
             /\ paths[k].value # node.current_depth * Scale

\* C10: every internal node has a right child holding at least one sample, its
\* left child is absent exactly when the split value is the minimum of the
\* attribute, and no walk of path_length ends in the final return current_depth.
C10_RightNeverAbsent ==
    /\ \A tree \in Built : \A id \in InternalIds(tree) :
          LET node == tree.nodes[id] IN
          /\ node.right # NULL
          /\ tree.nodes[node.right].size >= 1
          /\ (node.left = NULL) <=>
                 (node.split_value = SeqMin(node.indices, node.split_attribute))
    /\ (pc = "trained" /\ calls > 0) =>
          \A k \in 1 .. Len(paths) : paths[k].exit = "leaf"

C10_Witness ==
    /\ pc = "trained"
    /\ calls > 0
    /\ \E k \in 1 .. Len(paths) : \E id \in Range(paths[k].visited) :
          LET node == forest.trees[k].nodes[id]
          IN node.is_leaf = 0 /\ node.left = NULL
             /\ sample[node.split_attribute] < node.split_value

\* 2^k
RECURSIVE Pow2(_)
Pow2(k) == IF k = 0 THEN 1 ELSE 2 * Pow2(k - 1)

\* C11: build_isolation_tree terminates for every subsample and every random
\* choice: each call creates one node, a pending call can always run, no node
\* or call lies deeper than MAX_TREE_DEPTH, every internal node lies above
\* MAX_TREE_DEPTH, so at most 2^(MAX_TREE_DEPTH+1) - 1 calls are made; and a
\* call of path_length can always run on and visits at most
\* MAX_TREE_DEPTH + 1 nodes.
C11_BoundedBuildAndWalk ==
    /\ \A id \in DOMAIN nodes :
          /\ nodes[id].current_depth <= MAX_TREE_DEPTH
          /\ nodes[id].is_leaf = 0 => nodes[id].current_depth < MAX_TREE_DEPTH
    /\ \A k \in 1 .. Len(stack) : stack[k].current_depth <= MAX_TREE_DEPTH
    /\ build_calls = Cardinality(DOMAIN nodes)
    /\ build_calls + Len(stack) <= Pow2(MAX_TREE_DEPTH + 1) - 1
    /\ (pc = "build" /\ stack # <<>>) => ENABLED BuildCall
    /\ (pc = "build" /\ stack = <<>>) => ENABLED BuildReturn
    /\ (pc = "walk") => ENABLED WalkStep
    /\ walk.visited <= MAX_TREE_DEPTH + 1
    /\ walk.current_depth <= MAX_TREE_DEPTH
    /\ (pc = "walked") =>
          walk.value = path_length([nodes |-> nodes], 1, walk.smp, 0).value

C11_Witness ==
    /\ pc = "walked"
    /\ walk.visited = MAX_TREE_DEPTH + 1
    /\ \E id \in DOMAIN nodes :
          /\ nodes[id].is_leaf = 1
          /\ nodes[id].current_depth = MAX_TREE_DEPTH
          /\ nodes[id].size > 1
    /\ walk.current_depth = MAX_TREE_DEPTH
    /\ build_calls = MAX_TREE_DEPTH + 1

====
